---- MODULE Spec2Model ----
(***************************************************************************)
(* Verification model of the dispatch anomaly-detection pipeline:          *)
(*   src/src/models/train_baseline.py          time_splits, run_baselines  *)
(*   src/src/analysis/feature_engineer_dispatch.py   feature pipeline      *)
(*                                                                         *)
(* A table (pandas DataFrame) is a sequence of rows; the row at position p *)
(* carries index label p (the RangeIndex that read_parquet gives, written  *)
(* 1..n here for pandas' 0..n-1).  Timestamps are integer ticks,           *)
(* TicksPerDay of them to a calendar day; a null timestamp is NaT and a    *)
(* null delay is NaN.                                                      *)
(***************************************************************************)
EXTENDS Integers, Sequences, FiniteSets, TLC

\* ------------------------------------------------------------------ bounds
MaxRows == 4        \* rows of a dataset given to the splitter
MaxRunRows == 3     \* rows of a dataset given to a full scoring run
MaxFeatRows == 3    \* rows of a dataset given to the feature pipeline
MaxLabelRows == 4   \* rows of a dataset that has a label column
MaxPlainRows == 4   \* the same, for a dataset without a timestamp column
MaxDay == 2         \* calendar days 0..MaxDay
TicksPerDay == 2    \* distinct timestamps within a day
MaxSplits == 3      \* n_splits in 2..MaxSplits, and 10
TopN == 2           \* rows kept by .head(1000), scaled to the datasets above

\* ------------------------------------------------------- null sentinels
NaT == -1000
NaN == -1000

VARIABLES
    df,            \* the dataset handed to run_baselines / time_splits
    hasTime,       \* 'timestamp' in df.columns
    label_col,     \* dtype of the label column 'anomaly', or "none"
    numeric_cols,  \* df.select_dtypes(include=[np.number]).columns
    n_splits,      \* the n_splits argument
    pc,            \* position in run_baselines / time_splits
    sorted_idx,    \* time_splits: index labels of df.sort_values(time_col)
    segments,      \* time_splits: date_segments (or sizes in the fallback)
    i,             \* time_splits: loop variable
    train_idx,     \* the fold last yielded
    test_idx,
    folds,         \* every fold yielded so far, in order
    fold_i,        \* run_baselines: fold counter
    z_scores,      \* run_baselines: z.abs() of the last fold, per test label
    anomalies_z,   \* run_baselines: labels flagged by the z-score baseline
    report,        \* report['folds']
    rep_file,      \* baseline_report.json as written, or NoFile
    flagged_file,  \* flagged_anomalies.csv as written, or NoFile
    quick_rev,     \* how this build's quicksort leaves rows with equal keys
    route_rolled,  \* feature pipeline: rolling_group_features(df_sorted, 'route_id')
    plant_rolled,  \* feature pipeline: rolling_group_features(df_sorted, 'plant_id')
    features,      \* feature pipeline: the features frame
    features_file  \* dispatch_features.parquet as written, or NoFile

vars == <<df, label_col, hasTime, numeric_cols, n_splits, pc, sorted_idx, segments, i,
          train_idx, test_idx, folds, fold_i, z_scores, anomalies_z, report,
          rep_file, flagged_file, quick_rev, route_rolled, plant_rolled,
          features, features_file>>

\* the variables of the feature pipeline
featVars == <<route_rolled, plant_rolled, features, features_file>>

\* ------------------------------------------------------------ helpers
Range(s) == {s[k] : k \in 1..Len(s)}

RECURSIVE Flatten(_)
\* np.concatenate of a sequence of arrays
Flatten(ss) == IF ss = <<>> THEN <<>> ELSE Head(ss) \o Flatten(Tail(ss))

RECURSIVE SumSeq(_)
SumSeq(s) == IF s = <<>> THEN 0 ELSE Head(s) + SumSeq(Tail(s))

Abs(x) == IF x < 0 THEN -x ELSE x

RECURSIVE Gcd(_, _)
Gcd(a, b) == IF b = 0 THEN a ELSE Gcd(b, a % b)

\* a rational number num/den in lowest terms, den > 0
Frac(num, den) ==
    LET g == Gcd(Abs(num), den)
    IN  [num |-> num \div g, den |-> den \div g]

\* the undefined number (NaN) in the representation of Frac
NaNFrac == [num |-> 0, den |-> 0]

\* sort_values / argsort with the default kind='quicksort': the positions
\* of S ordered by key K.  Quicksort is not stable: rev says whether this
\* build leaves equal keys in input order or reverses them.  Null keys are
\* not sorted at all: nargsort appends them last, in input order.
RECURSIVE SortPos(_, _, _)
SortPos(S, K, rev) ==
    IF S = {} THEN <<>>
    ELSE LET before(p, q) ==
                 \/ K[p] # NaT /\ K[q] = NaT
                 \/ K[p] # NaT /\ K[q] # NaT /\ K[p] < K[q]
                 \/ K[p] = K[q] /\ K[p] # NaT /\ (IF rev THEN p > q ELSE p < q)
                 \/ K[p] = NaT /\ K[q] = NaT /\ p < q
             m == CHOOSE p \in S : \A q \in S \ {p} : before(p, q)
         IN  <<m>> \o SortPos(S \ {m}, K, rev)

\* Series.unique(): the distinct values in order of first appearance
RECURSIVE Unique(_)
Unique(s) ==
    IF s = <<>> THEN <<>>
    ELSE LET u == Unique(SubSeq(s, 1, Len(s) - 1))
         IN  IF s[Len(s)] \in Range(u) THEN u ELSE Append(u, s[Len(s)])

\* ============================================================ time_splits
\* df[time_col].dt.date of one timestamp: the calendar day; NaT stays NaT
DateOf(ts) == IF ts = NaT THEN NaT ELSE ts \div TicksPerDay

\* np.array_split(s, k): k contiguous sections, the first Len(s) % k of
\* them one element longer than the rest
ArraySplit(s, k) ==
    LET n == Len(s)
        each == n \div k
        extras == n % k
        start(j) == (j - 1) * each + (IF j - 1 < extras THEN j - 1 ELSE extras)
    IN  [j \in 1..k |-> SubSeq(s, start(j) + 1, start(j + 1))]

\* idx = np.arange(len(df))
RowIdx(d) == [p \in 1..Len(d) |-> p]

\* df.sort_values(time_col): the index labels in sorted order
SortValues(d, rev) == SortPos(1..Len(d), [p \in 1..Len(d) |-> d[p].ts], rev)

\* dates = df[time_col].dt.date.unique() of the sorted frame (NaT is a value
\* of the object column and is kept by unique())
Dates(d, sidx) == Unique([k \in 1..Len(sidx) |-> DateOf(d[sidx[k]].ts)])

\* if len(dates) < n_splits: n_splits = max(2, len(dates))
EffectiveSplits(dates, k) ==
    IF Len(dates) < k THEN (IF Len(dates) > 2 THEN Len(dates) ELSE 2) ELSE k

\* df[df[time_col].dt.date.isin(ds)].index.values
RowsWithDate(d, sidx, ds) ==
    SelectSeq(sidx, LAMBDA p : DateOf(d[p].ts) \in Range(ds))

\* train/test of loop index i (0-based as in the source)
TrainPartSliding(segs, k) == segs[k + 1]
TrainPart(segs, k) == Flatten(SubSeq(segs, 1, k + 1))
TestPart(segs, k) == segs[k + 2]

\* ========================================================== run_baselines
z_thresh == 3

\* the non-null values of column dispatch_delay_minutes on the rows idx
DelayVals(d, idx) ==
    LET keep == SelectSeq(idx, LAMBDA p : d[p].delay # NaN)
    IN  [k \in 1..Len(keep) |-> d[keep[k]].delay]

\* n * sum(x^2) - sum(x)^2 = n * (n - 1) * Series.std()^2  (std has ddof=1)
VarNum(v) ==
    Len(v) * SumSeq([k \in 1..Len(v) |-> v[k] * v[k]]) - SumSeq(v) * SumSeq(v)

\* train[...].std() > 0 ; the std of fewer than two values is NaN, not > 0
StdPositive(v) == Len(v) >= 2 /\ VarNum(v) > 0

\* z.abs() for one test value x, as the square of z in lowest terms:
\*   mu = train.mean(), sd = train.std() if train.std() > 0 else 1.0,
\*   z = (x - mu) / sd.  NaN when x is null or train has no value.
ZAbs(x, v) ==
    LET n == Len(v)
        dev == n * x - SumSeq(v)           \* n * (x - mu)
    IN  IF x = NaN \/ n = 0 THEN NaNFrac
        ELSE IF StdPositive(v)
             THEN Frac(dev * dev * (n - 1), n * VarNum(v))
             ELSE Frac(dev * dev, n * n)

\* z_scores > z_thresh (a comparison with NaN is False)
Exceeds(zsq) == zsq.den # 0 /\ zsq.num > z_thresh * z_thresh * zsq.den

\* z_scores of one fold, per test label
ZScores(d, tr, te) ==
    [p \in Range(te) |-> ZAbs(d[p].delay, DelayVals(d, tr))]

\* anomalies_z of one fold
AnomaliesZ(d, tr, te) == {p \in Range(te) : Exceeds(ZScores(d, tr, te)[p])}

NoFile == [written |-> FALSE]
None == [none |-> TRUE]

\* df['hour'] = df['timestamp'].dt.hour (the feature pipeline's column)
HourOf(ts) == IF ts = NaT THEN NaN ELSE ts % TicksPerDay

\* one row of X = df[numeric_cols].fillna(0).astype(float)
XRow(d, cols, p) ==
    LET fillna(v) == IF v = NaN THEN 0 ELSE v
    IN  [c \in cols |-> IF c = "hour" THEN fillna(HourOf(d[p].ts))
                        ELSE IF c = "anomaly" THEN d[p].anomaly
                        ELSE fillna(d[p].delay)]

\* IsolationForest is a library: the scores of a fitted forest are left
\* open, except that they are a function of the row of X.  A score is
\* -decision_function, so predict() == -1 exactly on the positive scores.
IFScores == {-1, 1}
Forests(d, cols, idx) == [{XRow(d, cols, p) : p \in Range(idx)} -> IFScores]

\* clf.fit(X_train) / clf.decision_function(X_test) raise ValueError on a
\* matrix with no column or no row (sklearn's check_array)
FitRaises(cols, tr, te) == cols = {} \/ tr = <<>> \/ te = <<>>

\* np.nanmean / np.nanstd of the scores, the std as its square
ScoreMean(sc) ==
    LET v == [k \in 1..Len(sc) |-> sc[k]]
    IN  IF Len(v) = 0 THEN NaNFrac ELSE Frac(SumSeq(v), Len(v))
ScoreVar(sc) ==
    IF Len(sc) = 0 THEN NaNFrac ELSE Frac(VarNum(sc), Len(sc) * Len(sc))

\* contamination, the default 0.02; reported as if_top_fraction
Contamination == Frac(1, 50)

\* precision_recall_fscore_support(y_test, flags, average='binary',
\* zero_division=0) over the test rows te, flagged being the rows flagged
Precision(d, te, flagged) ==
    LET tp == Cardinality({p \in Range(te) : p \in flagged /\ d[p].anomaly = 1})
        fp == Cardinality({p \in Range(te) : p \in flagged /\ d[p].anomaly = 0})
    IN  IF tp + fp = 0 THEN Frac(0, 1) ELSE Frac(tp, tp + fp)
Recall(d, te, flagged) ==
    LET tp == Cardinality({p \in Range(te) : p \in flagged /\ d[p].anomaly = 1})
        fn == Cardinality({p \in Range(te) : p \notin flagged /\ d[p].anomaly = 1})
    IN  IF tp + fn = 0 THEN Frac(0, 1) ELSE Frac(tp, tp + fn)
F1(d, te, flagged) ==
    LET tp == Cardinality({p \in Range(te) : p \in flagged /\ d[p].anomaly = 1})
        fp == Cardinality({p \in Range(te) : p \in flagged /\ d[p].anomaly = 0})
        fn == Cardinality({p \in Range(te) : p \notin flagged /\ d[p].anomaly = 1})
    IN  IF tp = 0 THEN Frac(0, 1) ELSE Frac(2 * tp, 2 * tp + fp + fn)

\* roc_auc_score(y_test, scores_if); it raises with a single class in
\* y_test, which lines 137-140 turn into None
Auc(d, te, sc) ==
    LET pos == {p \in Range(te) : d[p].anomaly = 1}
        neg == {p \in Range(te) : d[p].anomaly = 0}
        won == Cardinality({pr \in pos \X neg : sc[pr[1]] > sc[pr[2]]})
        tied == Cardinality({pr \in pos \X neg : sc[pr[1]] = sc[pr[2]]})
    IN  IF pos = {} \/ neg = {} THEN None
        ELSE Frac(2 * won + tied, 2 * Cardinality(pos) * Cardinality(neg))

\* the fields of a fold report that depend on the label column:
\* lines 128-140 with one, lines 141-149 without
LabelledPart(d, cols, tr, te, sc) ==
    LET anomalies_if == {p \in Range(te) : sc[p] > 0}
        ifp == [if_precision |-> Precision(d, te, anomalies_if),
                if_recall |-> Recall(d, te, anomalies_if),
                if_f1 |-> F1(d, te, anomalies_if),
                if_auc |-> Auc(d, te, sc)]
    IN  IF "dispatch_delay_minutes" \in cols
        THEN ifp @@ [z_precision |-> Precision(d, te, AnomaliesZ(d, tr, te)),
                     z_recall |-> Recall(d, te, AnomaliesZ(d, tr, te)),
                     z_f1 |-> F1(d, te, AnomaliesZ(d, tr, te))]
        ELSE ifp
DescriptivePart(d, cols, tr, te, sc) ==
    LET scseq == [j \in 1..Len(te) |-> sc[te[j]]]
        ifp == [if_anomalies |-> Cardinality({p \in Range(te) : sc[p] > 0}),
                if_score_mean |-> ScoreMean(scseq),
                if_score_std |-> ScoreVar(scseq)]
    IN  IF "dispatch_delay_minutes" \in cols
        THEN ifp @@ [z_anomalies |-> Cardinality(AnomaliesZ(d, tr, te))]
        ELSE ifp

\* fold_report of one fold (lines 120-149)
FoldReportZeroBased(d, cols, lab, k, tr, te, sc) ==
    [fold |-> k - 1, n_train |-> Len(tr), n_test |-> Len(te),
     if_top_fraction |-> Contamination]
        @@ (IF lab # "none" THEN LabelledPart(d, cols, tr, te, sc)
            ELSE DescriptivePart(d, cols, tr, te, sc))
FoldReportBothKinds(d, cols, lab, k, tr, te, sc) ==
    [fold |-> k, n_train |-> Len(tr), n_test |-> Len(te),
     if_top_fraction |-> Contamination]
        @@ DescriptivePart(d, cols, tr, te, sc)
        @@ (IF lab # "none" THEN LabelledPart(d, cols, tr, te, sc) ELSE <<>>)
FoldReport(d, cols, lab, k, tr, te, sc) ==
    [fold |-> k, n_train |-> Len(tr), n_test |-> Len(te),
     if_top_fraction |-> Contamination]
        @@ (IF lab # "none" THEN LabelledPart(d, cols, tr, te, sc)
            ELSE DescriptivePart(d, cols, tr, te, sc))

\* -------------------------------------------------- time_splits, fallback
\* lines 33-36: no timestamp column, split the row positions
SplitFallbackStart ==
    /\ pc = "split" /\ ~hasTime
    /\ segments' = ArraySplit(RowIdx(df), n_splits)
    /\ i' = 0
    /\ pc' = "fb_loop"
    /\ UNCHANGED <<df, label_col, hasTime, numeric_cols, n_splits, sorted_idx, train_idx,
                   test_idx, folds, fold_i, z_scores, anomalies_z, report,
                   rep_file, flagged_file, quick_rev, featVars>>

\* lines 37-40: every fold is yielded, whatever its sizes
SplitFallbackYield ==
    /\ pc = "fb_loop" /\ i < Len(segments) - 1
    /\ train_idx' = TrainPart(segments, i)
    /\ test_idx' = TestPart(segments, i)
    /\ folds' = Append(folds, [train |-> train_idx', test |-> test_idx', i |-> i])
    /\ pc' = "body"
    /\ UNCHANGED <<df, label_col, hasTime, numeric_cols, n_splits, sorted_idx, segments, i,
                   fold_i, z_scores, anomalies_z, report, rep_file,
                   flagged_file, quick_rev, featVars>>

\* line 41: the generator is exhausted
SplitFallbackReturn ==
    /\ pc = "fb_loop" /\ i >= Len(segments) - 1
    /\ pc' = "aggregate"
    /\ UNCHANGED <<df, label_col, hasTime, numeric_cols, n_splits, sorted_idx, segments, i,
                   train_idx, test_idx, folds, fold_i, z_scores, anomalies_z,
                   report, rep_file, flagged_file, quick_rev, featVars>>

\* ------------------------------------------------ time_splits, date mode
SplitDatesStartInPlace ==
    /\ pc = "split" /\ hasTime
    /\ sorted_idx' = SortValues(df, quick_rev)
    /\ LET dates == Dates(df, sorted_idx')
       IN  segments' = ArraySplit(dates, EffectiveSplits(dates, n_splits))
    /\ i' = 0
    /\ df' = [k \in 1..Len(df) |-> df[sorted_idx'[k]]]
    /\ pc' = "dt_loop"
    /\ UNCHANGED <<label_col, hasTime, numeric_cols, n_splits, train_idx, test_idx,
                   folds, fold_i, z_scores, anomalies_z, report, rep_file,
                   flagged_file, quick_rev, featVars>>

\* lines 43-49: sort, take the distinct dates, cut them into segments
SplitDatesStart ==
    /\ pc = "split" /\ hasTime
    /\ sorted_idx' = SortValues(df, quick_rev)
    /\ LET dates == Dates(df, sorted_idx')
       IN  segments' = ArraySplit(dates, EffectiveSplits(dates, n_splits))
    /\ i' = 0
    /\ pc' = "dt_loop"
    /\ UNCHANGED <<df, label_col, hasTime, numeric_cols, n_splits, train_idx, test_idx,
                   folds, fold_i, z_scores, anomalies_z, report, rep_file,
                   flagged_file, quick_rev, featVars>>

\* lines 52-57: a fold with an empty side is skipped
SplitDatesSkip ==
    /\ pc = "dt_loop" /\ i < Len(segments) - 1
    /\ \/ RowsWithDate(df, sorted_idx, TrainPart(segments, i)) = <<>>
       \/ RowsWithDate(df, sorted_idx, TestPart(segments, i)) = <<>>
    /\ i' = i + 1
    /\ UNCHANGED <<df, label_col, hasTime, numeric_cols, n_splits, pc, sorted_idx, segments,
                   train_idx, test_idx, folds, fold_i, z_scores, anomalies_z,
                   report, rep_file, flagged_file, quick_rev, featVars>>

\* lines 52-58: the fold is yielded
SplitDatesYield ==
    /\ pc = "dt_loop" /\ i < Len(segments) - 1
    /\ RowsWithDate(df, sorted_idx, TrainPart(segments, i)) # <<>>
    /\ RowsWithDate(df, sorted_idx, TestPart(segments, i)) # <<>>
    /\ train_idx' = RowsWithDate(df, sorted_idx, TrainPart(segments, i))
    /\ test_idx' = RowsWithDate(df, sorted_idx, TestPart(segments, i))
    /\ folds' = Append(folds, [train |-> train_idx', test |-> test_idx', i |-> i])
    /\ pc' = "body"
    /\ UNCHANGED <<df, label_col, hasTime, numeric_cols, n_splits, sorted_idx, segments, i,
                   fold_i, z_scores, anomalies_z, report, rep_file,
                   flagged_file, quick_rev, featVars>>

\* line 51: the loop is over, the generator is exhausted
SplitDatesReturn ==
    /\ pc = "dt_loop" /\ i >= Len(segments) - 1
    /\ pc' = "aggregate"
    /\ UNCHANGED <<df, label_col, hasTime, numeric_cols, n_splits, sorted_idx, segments, i,
                   train_idx, test_idx, folds, fold_i, z_scores, anomalies_z,
                   report, rep_file, flagged_file, quick_rev, featVars>>

\* ---------------------------------------------------------- run_baselines
\* lines 92-105: fitting or scoring raises; nothing catches it
FoldBodyRaises ==
    /\ pc = "body"
    /\ FitRaises(numeric_cols, train_idx, test_idx)
    /\ fold_i' = fold_i + 1
    /\ pc' = "fold_raised"
    /\ UNCHANGED <<df, label_col, hasTime, numeric_cols, n_splits, sorted_idx, segments, i,
                   train_idx, test_idx, folds, z_scores, anomalies_z, report,
                   rep_file, flagged_file, quick_rev, featVars>>

\* lines 92-151: one fold is fitted, scored and reported; the loop then
\* resumes the generator, which steps i
FoldBody ==
    /\ pc = "body"
    /\ ~FitRaises(numeric_cols, train_idx, test_idx)
    /\ fold_i' = fold_i + 1
    /\ IF "dispatch_delay_minutes" \in numeric_cols
       THEN /\ z_scores' = ZScores(df, train_idx, test_idx)
            /\ anomalies_z' = AnomaliesZ(df, train_idx, test_idx)
       ELSE /\ z_scores' = None
            /\ anomalies_z' = None
    /\ \E clf \in Forests(df, numeric_cols, test_idx) :
           LET scores_if == [p \in Range(test_idx) |-> clf[XRow(df, numeric_cols, p)]]
           IN  report' = Append(report, FoldReport(df, numeric_cols, label_col, fold_i',
                                                   train_idx, test_idx, scores_if))
    /\ i' = i + 1
    /\ pc' = IF hasTime THEN "dt_loop" ELSE "fb_loop"
    /\ UNCHANGED <<df, label_col, hasTime, numeric_cols, n_splits, sorted_idx, segments,
                   train_idx, test_idx, folds, rep_file, flagged_file,
                   quick_rev, featVars>>

\* lines 153-158: n_folds is set and the report is written
WriteReport ==
    /\ pc = "aggregate"
    /\ rep_file' = [written |-> TRUE, folds |-> report, n_folds |-> Len(report)]
    /\ pc' = "full"
    /\ UNCHANGED <<df, label_col, hasTime, numeric_cols, n_splits, sorted_idx, segments, i,
                   train_idx, test_idx, folds, fold_i, z_scores, anomalies_z,
                   report, flagged_file, quick_rev, featVars>>


\* df_out['z_anomaly'] (lines 174-178): the labels flagged over all rows
ZAnomalyFold(d) == IF Len(report) = 0 THEN {} ELSE anomalies_z
ZAnomalyAll(d) == AnomaliesZ(d, RowIdx(d), RowIdx(d))

\* df_out.sort_values('if_score', ascending=False).head(1000)
TopByScoreOtherTies(d, sc, rev) ==
    LET s == SortPos(1..Len(d), [p \in 1..Len(d) |-> -sc[p]], ~rev)
    IN  SubSeq(s, 1, IF Len(s) < TopN THEN Len(s) ELSE TopN)
TopByScore(d, sc, rev) ==
    LET s == SortPos(1..Len(d), [p \in 1..Len(d) |-> -sc[p]], rev)
    IN  SubSeq(s, 1, IF Len(s) < TopN THEN Len(s) ELSE TopN)

\* lines 161-169: clf_all.fit(X_all) raises on a frame without rows
FullDatasetRaises ==
    /\ pc = "full"
    /\ numeric_cols # {} /\ df = <<>>
    /\ pc' = "full_raised"
    /\ UNCHANGED <<df, label_col, hasTime, numeric_cols, n_splits, sorted_idx, segments, i,
                   train_idx, test_idx, folds, fold_i, z_scores, anomalies_z,
                   report, rep_file, flagged_file, quick_rev, featVars>>

\* lines 161-190 with numeric columns: score all rows, write the top rows
FullDatasetScored ==
    /\ pc = "full"
    /\ numeric_cols # {} /\ df # <<>>
    /\ \E clf_all \in Forests(df, numeric_cols, RowIdx(df)) :
           LET scores_all == [p \in 1..Len(df) |-> clf_all[XRow(df, numeric_cols, p)]]
           IN  flagged_file' =
                   [written |-> TRUE,
                    rows |-> TopByScore(df, scores_all, quick_rev),
                    if_score |-> scores_all,
                    delay_zscore |-> IF "dispatch_delay_minutes" \in numeric_cols
                                     THEN ZScores(df, RowIdx(df), RowIdx(df))
                                     ELSE None,
                    z_anomaly |-> IF "dispatch_delay_minutes" \in numeric_cols
                                  THEN ZAnomalyAll(df) ELSE {}]
    /\ pc' = "done"
    /\ UNCHANGED <<df, label_col, hasTime, numeric_cols, n_splits, sorted_idx, segments, i,
                   train_idx, test_idx, folds, fold_i, z_scores, anomalies_z,
                   report, rep_file, quick_rev, featVars>>

\* lines 170-171, 186-188 without numeric columns: the dataset is written
FullDatasetPlain ==
    /\ pc = "full"
    /\ numeric_cols = {}
    /\ flagged_file' = [written |-> TRUE, rows |-> RowIdx(df)]
    /\ pc' = "done"
    /\ UNCHANGED <<df, label_col, hasTime, numeric_cols, n_splits, sorted_idx, segments, i,
                   train_idx, test_idx, folds, fold_i, z_scores, anomalies_z,
                   report, rep_file, quick_rev, featVars>>

\* ------------------------------------------------------------ the inputs
Timestamps == 0..((MaxDay + 1) * TicksPerDay - 1)
SplitChoices == (2..MaxSplits) \cup {10}
DelayValues == {0, 1, 1 + z_thresh}

Row(t, x) == [ts |-> t, delay |-> x]

\* all tables of at most n rows with the given timestamps and delays
Tables(n, T, X) ==
    UNION {[1..k -> {Row(t, x) : t \in T, x \in X}] : k \in 0..n}

\* the rows are in timestamp order, null timestamps last (the order in
\* which the feature pipeline writes its table)
IsSorted(d) ==
    \A p \in 1..Len(d) - 1 :
        d[p + 1].ts = NaT \/ (d[p].ts # NaT /\ d[p].ts <= d[p + 1].ts)

Blank ==
    /\ sorted_idx = <<>> /\ segments = <<>> /\ i = 0
    /\ train_idx = <<>> /\ test_idx = <<>> /\ folds = <<>>
    /\ fold_i = 0 /\ z_scores = None /\ anomalies_z = None
    /\ report = <<>> /\ rep_file = NoFile /\ flagged_file = NoFile
    /\ route_rolled = None /\ plant_rolled = None
    /\ features = <<>> /\ features_file = NoFile

ColumnSets == {{}, {"hour"}, {"dispatch_delay_minutes"}}

\* inputs for the splitter: any table in any row order, with or without a
\* timestamp column
SplitInputs ==
    /\ label_col = "none"
    /\ hasTime \in BOOLEAN
    /\ df \in Tables(MaxRows, IF hasTime THEN Timestamps \cup {NaT} ELSE {NaT}, {0})
    /\ numeric_cols = {"dispatch_delay_minutes"}
    /\ n_splits \in SplitChoices
    /\ quick_rev = FALSE

\* inputs for the scorers: tables with varied delay values and column sets
ScoreInputs ==
    /\ label_col = "none"
    /\ hasTime \in BOOLEAN
    /\ numeric_cols \in ColumnSets
    /\ df \in Tables(MaxRunRows,
                     IF hasTime THEN {dd * TicksPerDay : dd \in 0..MaxDay} \cup {NaT}
                                ELSE {NaT},
                     IF "dispatch_delay_minutes" \in numeric_cols
                     THEN DelayValues \cup {NaN} ELSE {NaN})
    /\ IsSorted(df)
    /\ n_splits \in 2..MaxSplits
    /\ quick_rev \in BOOLEAN

\* inputs with a label column 'anomaly': boolean, or 0/1 integer, which
\* select_dtypes(include=[np.number]) (line 81) takes as a numeric column
LabelledRow(x, y) == [ts |-> NaT, delay |-> x, anomaly |-> y]
LabelledTables(n, X) ==
    UNION {[1..k -> {LabelledRow(x, y) : x \in X, y \in {0, 1}}] : k \in 0..n}
LabelInputs ==
    /\ label_col \in {"bool", "int"}
    /\ hasTime = FALSE
    /\ \E base \in {{}, {"dispatch_delay_minutes"}} :
        /\ numeric_cols = base \cup (IF label_col = "int" THEN {"anomaly"} ELSE {})
        /\ df \in LabelledTables(MaxLabelRows,
                                 IF base = {} THEN {NaN} ELSE {0, 1 + z_thresh})
    /\ n_splits = 2
    /\ quick_rev = FALSE

Init == pc = "split" /\ Blank /\ (SplitInputs \/ ScoreInputs \/ LabelInputs)

Next ==
    \/ SplitFallbackStart \/ SplitFallbackYield \/ SplitFallbackReturn
    \/ SplitDatesStart \/ SplitDatesSkip \/ SplitDatesYield \/ SplitDatesReturn
    \/ FoldBodyRaises \/ FoldBody
    \/ WriteReport
    \/ FullDatasetRaises \/ FullDatasetScored \/ FullDatasetPlain

Spec == Init /\ [][Next]_vars

\* ================================================ feature_engineer_dispatch
\* windows=['7D','30D'], in days
Window7D == 7
Window30D == 30
Windows == {"7D", "30D"}
\* the length of a window in ticks
Duration(w) == (IF w = "7D" THEN Window7D ELSE Window30D) * TicksPerDay

\* the elements of a finite set of integers in ascending order
RECURSIVE Ascending(_)
Ascending(S) ==
    IF S = {} THEN <<>>
    ELSE LET m == CHOOSE x \in S : \A y \in S : x <= y
         IN  <<m>> \o Ascending(S \ {m})

\* the values v in ascending order, as np.sort would give them
RECURSIVE SortedVals(_)
SortedVals(v) ==
    IF v = <<>> THEN <<>>
    ELSE LET k == CHOOSE a \in 1..Len(v) : \A b \in 1..Len(v) : v[a] <= v[b]
         IN  <<v[k]>> \o SortedVals(SubSeq(v, 1, k - 1) \o SubSeq(v, k + 1, Len(v)))

\* rolling(...).agg(['mean','median','std','count']) on the non-null values
\* v of one window, min_periods=1: mean and median are NaN without a value;
\* std has ddof=1 and is NaN below two values, which .fillna(0) (line 87)
\* turns into 0; it is kept as its square.  count is the number of values.
RollMean(v) == IF v = <<>> THEN NaNFrac ELSE Frac(SumSeq(v), Len(v))
RollMedian(v) ==
    LET n == Len(v)
        sv == SortedVals(v)
    IN  IF n = 0 THEN NaNFrac
        ELSE IF n % 2 = 1 THEN Frac(sv[(n + 1) \div 2], 1)
        ELSE Frac(sv[n \div 2] + sv[n \div 2 + 1], 2)
RollStdUnfilled(v) ==
    IF Len(v) < 2 THEN NaNFrac ELSE Frac(VarNum(v), Len(v) * (Len(v) - 1))
RollStd(v) ==
    IF Len(v) < 2 THEN Frac(0, 1) ELSE Frac(VarNum(v), Len(v) * (Len(v) - 1))
RollAgg(v) ==
    [mean |-> RollMean(v), median |-> RollMedian(v), std |-> RollStd(v),
     count |-> Len(v)]

\* lines 72-75: the columns as created, before any group is filled in
UnfilledAggNullCount ==
    [mean |-> NaNFrac, median |-> NaNFrac, std |-> NaNFrac, count |-> NaN]
UnfilledAgg == [mean |-> NaNFrac, median |-> NaNFrac, std |-> NaNFrac, count |-> 0]

\* df_valid.groupby(group_col).groups[g]: the labels of the rows with a
\* timestamp and key g, in frame order
GroupIdxs(d, frame, col, g) ==
    SelectSeq(frame, LAMBDA p : d[p].ts # NaT /\ d[p][col] = g)
GroupKeys(d, frame, col) == {d[p][col] : p \in {q \in Range(frame) : d[q].ts # NaT}}

\* gdf = df_valid.loc[idxs].sort_values('timestamp') (line 77)
Gdf(d, idxs, rev) ==
    LET perm == SortPos(1..Len(idxs), [k \in 1..Len(idxs) |-> d[idxs[k]].ts], rev)
    IN  [j \in 1..Len(idxs) |-> idxs[perm[j]]]

\* whether the row with timestamp t lies in the window that ends at the row
\* with timestamp tj: rolling(w) is closed on the right only, (tj - w, tj]
InWindow(t, tj, w) == t > tj - Duration(w)

\* one window of rolling(w) on gdf: row j and the rows before it that are
\* in the window (line 82); the aggregate is over their non-null delays
WindowRowsLookahead(d, gdf, j, w) ==
    SelectSeq(gdf, LAMBDA p : InWindow(d[p].ts, d[gdf[j]].ts, w))
WindowRows(d, gdf, j, w) ==
    SelectSeq(SubSeq(gdf, 1, j), LAMBDA p : InWindow(d[p].ts, d[gdf[j]].ts, w))
Rolled(d, gdf, w) ==
    [j \in 1..Len(gdf) |-> RollAgg(DelayVals(d, WindowRows(d, gdf, j, w)))]

\* rolled[...].reindex(timestamps) (lines 84-88), timestamps being those of
\* idxs in frame order and the index of rolled those of gdf: an index equal
\* to the target is taken as it is, row by row; otherwise the rows are
\* looked up by timestamp, which raises when the index has duplicates
TsOf(d, idx) == [k \in 1..Len(idx) |-> d[idx[k]].ts]
ReindexRaisesOnDuplicates(d, idxs, gdf) ==
    Cardinality(Range(TsOf(d, gdf))) < Len(gdf)
ReindexRaises(d, idxs, gdf) ==
    /\ TsOf(d, gdf) # TsOf(d, idxs)
    /\ Cardinality(Range(TsOf(d, gdf))) < Len(gdf)
Reindexed(d, idxs, gdf, rolled) ==
    IF TsOf(d, gdf) = TsOf(d, idxs) THEN rolled
    ELSE [k \in 1..Len(idxs) |->
            rolled[CHOOSE j \in 1..Len(gdf) : d[gdf[j]].ts = d[idxs[k]].ts]]

\* rolling_group_features(df, group_col): out, per index label and window,
\* for the frame whose rows are d in the order `frame`
GroupRaises(d, frame, col, rev) ==
    \E g \in GroupKeys(d, frame, col) :
        ReindexRaises(d, GroupIdxs(d, frame, col, g),
                      Gdf(d, GroupIdxs(d, frame, col, g), rev))
RolledFor(d, frame, col, rev, p, w) ==
    IF d[p].ts = NaT THEN UnfilledAgg
    ELSE LET idxs == GroupIdxs(d, frame, col, d[p][col])
             gdf == Gdf(d, idxs, rev)
             vals == Reindexed(d, idxs, gdf, Rolled(d, gdf, w))
             k == CHOOSE j \in 1..Len(idxs) : idxs[j] = p
         IN  vals[k]
RollingOut(d, frame, col, rev) ==
    [p \in Range(frame) |-> [w \in Windows |-> RolledFor(d, frame, col, rev, p, w)]]
\* lines 54-61: without a timestamp column, or without any timestamp, the
\* frame returned has no column
RollingEmpty(d, time_col) == ~time_col \/ \A p \in 1..Len(d) : d[p].ts = NaT
rolling_group_features(d, frame, time_col, col, rev) ==
    IF RollingEmpty(d, time_col) THEN [empty |-> TRUE, raised |-> FALSE, out |-> <<>>]
    ELSE IF GroupRaises(d, frame, col, rev)
         THEN [empty |-> FALSE, raised |-> TRUE, out |-> <<>>]
         ELSE [empty |-> FALSE, raised |-> FALSE,
               out |-> RollingOut(d, frame, col, rev)]

\* add_route_zscore (lines 92-97): mean and std (ddof=1) of the non-null
\* delays of the key's rows, z = (x - mean) / std.replace(0, nan).  The std
\* is kept as its square and z as its sign and its square.
GroupDelays(rows, g) ==
    LET keep == SelectSeq(rows, LAMBDA r : r.route_id = g /\ r.delay # NaN)
    IN  [k \in 1..Len(keep) |-> keep[k].delay]
GroupMean(v) == IF v = <<>> THEN NaNFrac ELSE Frac(SumSeq(v), Len(v))
GroupStd(v) ==
    IF Len(v) < 2 THEN NaNFrac ELSE Frac(VarNum(v), Len(v) * (Len(v) - 1))
NaNScore == [sign |-> 0, sq |-> NaNFrac]
GroupZUnitStd(x, v) ==
    LET n == Len(v)
        dev == n * x - SumSeq(v)
    IN  IF x = NaN \/ n < 2 THEN NaNScore
        ELSE [sign |-> IF dev > 0 THEN 1 ELSE IF dev < 0 THEN -1 ELSE 0,
              sq |-> IF VarNum(v) = 0 THEN Frac(dev * dev, n * n)
                     ELSE Frac(dev * dev * (n - 1), n * VarNum(v))]
GroupZ(x, v) ==
    LET n == Len(v)
        dev == n * x - SumSeq(v)
    IN  IF x = NaN \/ n < 2 \/ VarNum(v) = 0 THEN NaNScore
        ELSE [sign |-> IF dev > 0 THEN 1 ELSE IF dev < 0 THEN -1 ELSE 0,
              sq |-> Frac(dev * dev * (n - 1), n * VarNum(v))]
add_route_zscore(rows) ==
    [q \in 1..Len(rows) |->
        LET v == GroupDelays(rows, rows[q].route_id)
        IN  rows[q] @@ [route_id_mean |-> GroupMean(v),
                        route_id_std |-> GroupStd(v),
                        route_id_zscore |-> GroupZ(rows[q].delay, v)]]

\* lines 112-116: features = df_sorted.reset_index(drop=True) holds at
\* position q the row of df_sorted's q-th label and carries the new label q;
\* pd.concat(axis=1) joins the rolled frames on the index label, and those
\* are still labelled as df was.  A rolled frame without columns is left out.
RolledAtLabel(rolled, q) == IF rolled.empty THEN None ELSE rolled.out[q]
Concat(d, frame, rr, pr) ==
    [q \in 1..Len(frame) |->
        [event_id |-> frame[q],
         ts |-> d[frame[q]].ts,
         route_id |-> d[frame[q]].route_id,
         plant_id |-> d[frame[q]].plant_id,
         delay |-> d[frame[q]].delay,
         route_roll |-> RolledAtLabel(rr, q),
         plant_roll |-> RolledAtLabel(pr, q)]]

\* main, lines 104-109: the prepared frame is sorted and both rolled frames
\* are computed
RollFeatures ==
    /\ pc = "loaded"
    /\ sorted_idx' = IF hasTime THEN SortValues(df, quick_rev) ELSE RowIdx(df)
    /\ route_rolled' = rolling_group_features(df, sorted_idx', hasTime, "route_id", quick_rev)
    /\ plant_rolled' = rolling_group_features(df, sorted_idx', hasTime, "plant_id", quick_rev)
    /\ pc' = IF route_rolled'.raised \/ plant_rolled'.raised
             THEN "feat_raised" ELSE "rolled"
    /\ UNCHANGED <<df, label_col, hasTime, numeric_cols, n_splits, segments, i, train_idx,
                   test_idx, folds, fold_i, z_scores, anomalies_z, report,
                   rep_file, flagged_file, quick_rev, features, features_file>>

\* main, lines 112-127: merge, add the route z-score, write the table
MergeAndWrite ==
    /\ pc = "rolled"
    /\ features' = add_route_zscore(Concat(df, sorted_idx, route_rolled, plant_rolled))
    /\ features_file' = [written |-> TRUE, rows |-> features']
    /\ pc' = "feat_done"
    /\ UNCHANGED <<df, label_col, hasTime, numeric_cols, n_splits, sorted_idx, segments, i,
                   train_idx, test_idx, folds, fold_i, z_scores, anomalies_z,
                   report, rep_file, flagged_file, quick_rev, route_rolled,
                   plant_rolled>>

\* inputs for the feature pipeline: the frame load_and_prepare returns, in
\* any row order; the timestamps lie a window length apart
FeatTimes == {0, Window7D * TicksPerDay, Window30D * TicksPerDay}
Routes == {"r1", "r2"}
Plants == {"p1"}
FeatRow(t, r, pl, x) == [ts |-> t, route_id |-> r, plant_id |-> pl, delay |-> x]
FeatTables(n, T) ==
    UNION {[1..k -> {FeatRow(t, r, pl, x) :
                        t \in T, r \in Routes, pl \in Plants, x \in {0, 1, NaN}}] :
           k \in 0..n}

InitFeat ==
    /\ pc = "loaded" /\ Blank
    /\ label_col = "none"
    /\ hasTime \in BOOLEAN
    /\ df \in IF hasTime THEN FeatTables(MaxFeatRows, FeatTimes \cup {NaT})
                         ELSE FeatTables(MaxPlainRows, {NaT})
    /\ numeric_cols = {} /\ n_splits = 2
    /\ quick_rev \in BOOLEAN

NextFeat == RollFeatures \/ MergeAndWrite

SpecFeat == InitFeat /\ [][NextFeat]_vars

\* both programs, each from its own inputs
SpecAll == (Init \/ InitFeat) /\ [][Next \/ NextFeat]_vars

\* ================================================================ claims
\* the run has returned or has ended with an exception
Terminated == pc \in {"done", "fold_raised", "full_raised"}
\* time_splits has been run to exhaustion in date-segmented mode
SplitDone == hasTime /\ pc \in {"aggregate", "full", "done", "full_raised"}

\* Series.max() / Series.min() of the timestamps of the rows idx: nulls are
\* skipped, and the result is NaT when no row has a timestamp
MaxTs(idx) ==
    LET T == {df[p].ts : p \in Range(idx)} \ {NaT}
    IN  IF T = {} THEN NaT ELSE CHOOSE t \in T : \A u \in T : u <= t
MinTs(idx) ==
    LET T == {df[p].ts : p \in Range(idx)} \ {NaT}
    IN  IF T = {} THEN NaT ELSE CHOOSE t \in T : \A u \in T : t <= u

\* C3: in date-segmented mode the latest train timestamp of every emitted
\* fold is strictly earlier than the earliest test timestamp (a comparison
\* with a missing timestamp does not hold).
C3_FoldOrdering ==
    hasTime =>
        \A k \in 1..Len(folds) :
            /\ MaxTs(folds[k].train) # NaT
            /\ MinTs(folds[k].test) # NaT
            /\ MaxTs(folds[k].train) < MinTs(folds[k].test)

\* the sorted distinct calendar dates of the dataset (nulls are no date)
RealDates == {DateOf(df[p].ts) : p \in {q \in 1..Len(df) : df[q].ts # NaT}}
\* the labels of the rows whose date is in the set D
RowsDated(D) == {p \in 1..Len(df) : df[p].ts # NaT /\ DateOf(df[p].ts) \in D}
\* the j-th smallest element of a set of dates, j = 1..
RECURSIVE NthDate(_, _)
NthDate(D, j) ==
    LET m == CHOOSE x \in D : \A y \in D : x <= y
    IN  IF j = 1 THEN m ELSE NthDate(D \ {m}, j - 1)
\* the ways to cut n sorted dates into k contiguous blocks whose sizes differ
\* by at most one, each given by the k block sizes
NearEqualCuts(n, k) ==
    {sz \in [1..k -> 0..n] :
        /\ SumSeq(sz) = n
        /\ \A a, b \in 1..k : sz[a] - sz[b] <= 1}
\* the dates of blocks lo..hi of the cut sz
BlockDates(sz, lo, hi) ==
    LET first == SumSeq(SubSeq(sz, 1, lo - 1)) + 1
        last == SumSeq(SubSeq(sz, 1, hi))
    IN  {NthDate(RealDates, j) : j \in first..last}

\* C5: with at least n_splits distinct dates, exactly n_splits - 1 folds are
\* emitted; fold i trains on the rows dated in blocks 0..i and tests on the
\* rows dated in block i+1 of a cut of the sorted distinct dates into
\* n_splits contiguous blocks whose sizes differ by at most one.
C5_ExpandingWindow ==
    (SplitDone /\ Cardinality(RealDates) >= n_splits) =>
        /\ Len(folds) = n_splits - 1
        /\ \E sz \in NearEqualCuts(Cardinality(RealDates), n_splits) :
               \A k \in 1..Len(folds) :
                   /\ Range(folds[k].train) = RowsDated(BlockDates(sz, 1, k))
                   /\ Range(folds[k].test) = RowsDated(BlockDates(sz, k + 1, k + 1))

\* max(2, D)
DegradedSplits == IF Cardinality(RealDates) > 2 THEN Cardinality(RealDates) ELSE 2

\* C6: with fewer distinct dates D than n_splits, max(2, D) segments are
\* used and at most max(2, D) - 1 folds are emitted (null timestamps are no
\* date): 3 dates and n_splits = 10 give at most 2 folds.
C6_SplitDegradation ==
    (SplitDone /\ Cardinality(RealDates) < n_splits) =>
        /\ Len(segments) = DegradedSplits
        /\ Len(folds) <= DegradedSplits - 1

\* C7: no emitted fold has an empty train set or an empty test set, in
\* either mode.
C7_NoEmptyFold ==
    \A k \in 1..Len(folds) : folds[k].train # <<>> /\ folds[k].test # <<>>

\* a fold was yielded whose fit or score step raised
FoldFailed == fold_i > Len(report)

\* C8: a fold whose fit or score step raises is caught: the exception does
\* not end the run, and the run that ends has written both artifacts.
C8_FoldFailureCaught ==
    /\ pc # "fold_raised"
    /\ (Terminated /\ FoldFailed) => (rep_file.written /\ flagged_file.written)

\* C9: without any numeric column the run ends in a failure and writes
\* neither the report nor the flagged table, whatever the number of folds.
C9_NoNumericHardFailure ==
    numeric_cols = {} =>
        /\ pc # "done"
        /\ ~rep_file.written
        /\ ~flagged_file.written

\* the last yielded fold has been scored by the z-score baseline
FoldScored ==
    /\ "dispatch_delay_minutes" \in numeric_cols
    /\ Len(report) >= 1
    /\ pc \in {"dt_loop", "fb_loop", "aggregate", "full", "done", "full_raised"}

\* |(x - mean) / std| > 3.0 with the mean and the (sample) std of the values
\* v; the quotient is undefined, and nothing is flagged, when x is null or
\* the std is zero or undefined
FlagByTrainStd(x, v) ==
    LET n == Len(v)
        dev == n * x - SumSeq(v)
    IN  /\ x # NaN
        /\ n >= 2
        /\ VarNum(v) > 0
        /\ dev * dev * (n - 1) > z_thresh * z_thresh * n * VarNum(v)

\* C10: the z-score baseline of a fold uses the train rows' mean and std
\* only: another delay value on one test row changes neither the z-score
\* nor the decision of any other test row, and a test row is flagged exactly
\* when |(delay - train mean) / train std| > 3.0.
C10_TrainOnlyZScore ==
    FoldScored =>
        /\ \A u \in Range(test_idx) : \A x \in DelayValues \cup {NaN} :
               LET d2 == [df EXCEPT ![u].delay = x]
               IN  \A t \in Range(test_idx) \ {u} :
                       /\ ZScores(d2, train_idx, test_idx)[t] = z_scores[t]
                       /\ (t \in AnomaliesZ(d2, train_idx, test_idx)) <=> (t \in anomalies_z)
        /\ \A t \in Range(test_idx) :
               (t \in anomalies_z) <=> FlagByTrainStd(df[t].delay, DelayVals(df, train_idx))

\* ------------------------------------------------- feature pipeline claims
GroupCols == {"route_id", "plant_id"}
FeaturesRolled == pc \in {"rolled", "feat_done"} /\ ~route_rolled.empty
RolledOf(col) == IF col = "route_id" THEN route_rolled ELSE plant_rolled
Timed == {p \in 1..Len(df) : df[p].ts # NaT}
SameGroup(col, p, q) == df[q].ts # NaT /\ df[q][col] = df[p][col]

\* the input without the events of p's group that are later than p, and
\* the label p carries in it
PastLabels(col, p) ==
    SelectSeq(RowIdx(df), LAMBDA q : ~(SameGroup(col, p, q) /\ df[q].ts > df[p].ts))
Past(col, p) == [k \in 1..Len(PastLabels(col, p)) |-> df[PastLabels(col, p)[k]]]
PastLabel(col, p) == CHOOSE k \in 1..Len(PastLabels(col, p)) : PastLabels(col, p)[k] = p
ValueOnPast(col, p, w) ==
    rolling_group_features(Past(col, p), SortValues(Past(col, p), quick_rev),
                           TRUE, col, quick_rev).out[PastLabel(col, p)][w]

C2_FeaturesAligned ==
    (pc = "feat_done" /\ ~route_rolled.empty) =>
        \A q \in 1..Len(features) :
            /\ features[q].route_roll = route_rolled.out[features[q].event_id]
            /\ features[q].plant_roll = plant_rolled.out[features[q].event_id]

\* C4: for every event e with a timestamp and every window duration d, the
\* aggregate is over exactly the events of e's group whose timestamp t has
\* e.timestamp - d <= t <= e.timestamp, both bounds inclusive, events with
\* e's own timestamp included.
InclusiveWindow(col, p, w) ==
    SelectSeq(RowIdx(df), LAMBDA q :
        /\ SameGroup(col, p, q)
        /\ df[p].ts - Duration(w) <= df[q].ts /\ df[q].ts <= df[p].ts)
C4_WindowBothInclusive ==
    FeaturesRolled =>
        \A col \in GroupCols : \A p \in Timed : \A w \in Windows :
            RolledOf(col).out[p][w] = RollAgg(DelayVals(df, InclusiveWindow(col, p, w)))

\* ------------------------------------------------- group normalizer claims
FeaturesWritten == pc = "feat_done"
RouteRows(g) == {q \in 1..Len(features) : features[q].route_id = g}
RouteDelays(g) == {features[q].delay : q \in RouteRows(g)} \ {NaN}
\* the group's std is 0: at least two delays, all of them equal
ZeroStd(g) ==
    /\ Cardinality({q \in RouteRows(g) : features[q].delay # NaN}) >= 2
    /\ Cardinality(RouteDelays(g)) = 1
\* the z-score of input row p computed from the rows of its own route alone
OwnGroupZ(p) ==
    LET own == SelectSeq(RowIdx(df), LAMBDA q : df[q].route_id = df[p].route_id)
    IN  GroupZ(df[p].delay, DelayVals(df, own))

\* C11: add_route_zscore does not raise; every member of a route whose
\* delays are all equal (std = 0) gets the z-score NaN, neither a number
\* nor an infinity; the z-score of every event is the one its own route's
\* delays give, so the events of other routes are unaffected.
C11_ZeroStdUndefined ==
    FeaturesWritten =>
        /\ features_file.written
        /\ \A q \in 1..Len(features) :
            /\ ZeroStd(features[q].route_id) => features[q].route_id_zscore = NaNScore
            /\ features[q].route_id_zscore = OwnGroupZ(features[q].event_id)
\* a route with equal delays next to a route whose members have a z-score
C11_Witness ==
    /\ FeaturesWritten
    /\ \E q \in 1..Len(features) : \E r \in 1..Len(features) :
        /\ ZeroStd(features[q].route_id)
        /\ features[q].route_id_zscore = NaNScore
        /\ features[r].route_id # features[q].route_id
        /\ features[r].route_id_zscore # NaNScore

\* ----------------------------------------------- statistical scorer claims
\* the delays of the rows idx have a std of 0: two or more, all equal
AllEqualDelays(idx) ==
    Len(DelayVals(df, idx)) >= 2 /\ VarNum(DelayVals(df, idx)) = 0
FullScored == pc = "done" /\ "dispatch_delay_minutes" \in numeric_cols

\* C12: when the delays the std is taken from are all equal (std = 0), the
\* z-score is NaN and the statistical scorer flags no event, in a fold
\* (train delays all equal, any test delays) and over the full dataset.
C12_ZeroStdNoFlag ==
    /\ (FoldScored /\ AllEqualDelays(train_idx)) =>
           /\ \A t \in Range(test_idx) : z_scores[t] = NaNFrac
           /\ anomalies_z = {}
    /\ (FullScored /\ AllEqualDelays(RowIdx(df))) =>
           /\ \A p \in 1..Len(df) : flagged_file.delay_zscore[p] = NaNFrac
           /\ flagged_file.z_anomaly = {}

\* ------------------------------------------------------- run report claims
\* C13: in a written report n_folds is the number of fold reports, the
\* k-th report belongs to the k-th fold the splitter emitted, and the fold
\* indices are 1, 2, ..., n_folds; also when folds were skipped or none
\* was emitted.
C13_ReportOrdered ==
    rep_file.written =>
        /\ rep_file.n_folds = Len(rep_file.folds)
        /\ Len(rep_file.folds) = Len(folds)
        /\ \A k \in 1..Len(rep_file.folds) :
            /\ rep_file.folds[k].fold = k
            /\ rep_file.folds[k].n_train = Len(folds[k].train)
            /\ rep_file.folds[k].n_test = Len(folds[k].test)
\* a report of two folds of different sizes
C13_Witness ==
    /\ rep_file.written
    /\ rep_file.n_folds = 2
    /\ rep_file.folds[1].n_train # rep_file.folds[2].n_train
\* a written report of a run in which the splitter skipped its only fold
C13_WitnessSkipped ==
    /\ rep_file.written /\ rep_file.n_folds = 0 /\ hasTime /\ Len(df) >= 1

\* C14: without a label column every fold report holds, for the isolation
\* scorer and for the statistical scorer alike, the number of test events
\* flagged and the mean and the standard deviation of the scores.
ScorerFields ==
    {"if_anomalies", "if_score_mean", "if_score_std",
     "z_anomalies", "z_score_mean", "z_score_std"}
C14_BothScorersReported ==
    label_col = "none" =>
        \A k \in 1..Len(report) : ScorerFields \subseteq DOMAIN report[k]

\* ---------------------------------------------------- flagged table claims
\* C15: whenever the flagged-anomalies table is written, with or without
\* numeric columns, it holds at most the top-N rows, ordered by
\* non-increasing isolation score where rows have one.
C15_FlaggedTopN ==
    flagged_file.written =>
        /\ Len(flagged_file.rows) <= TopN
        /\ "if_score" \in DOMAIN flagged_file =>
               \A k \in 1..(Len(flagged_file.rows) - 1) :
                   flagged_file.if_score[flagged_file.rows[k]]
                       >= flagged_file.if_score[flagged_file.rows[k + 1]]

\* row p stands before row q in the flagged table: by higher isolation
\* score, and among equal scores by the order the build's sort leaves
StandsBefore(p, q) ==
    \/ flagged_file.if_score[p] > flagged_file.if_score[q]
    \/ /\ flagged_file.if_score[p] = flagged_file.if_score[q]
       /\ IF quick_rev THEN p > q ELSE p < q

C17_InputOrderKept ==
    FeaturesWritten =>
        /\ Len(features) = Len(df)
        /\ \A q \in 1..Len(features) : features[q].event_id = q

\* ------------------------------------------------- splitter fallback claim
NoTimestampAtAll == df # <<>> /\ \A p \in 1..Len(df) : df[p].ts = NaT
SplitterExhausted == pc \in {"aggregate", "full", "done", "full_raised"}
RowChunks == ArraySplit(RowIdx(df), n_splits)

\* C18: when no event has a timestamp, the column being absent or all
\* null, time_splits emits the row-index fallback: the row positions cut
\* into n_splits contiguous chunks, fold k being train = chunks 1..k and
\* test = chunk k+1.
C18_FallbackWithoutTimestamps ==
    (SplitterExhausted /\ NoTimestampAtAll) =>
        /\ Len(folds) = n_splits - 1
        /\ \A k \in 1..Len(folds) :
            /\ folds[k].train = Flatten(SubSeq(RowChunks, 1, k))
            /\ folds[k].test = RowChunks[k + 1]

\* ------------------------------------------------- windowed count claims
\* C19: for every event with a timestamp and every window the windowed
\* count is at least 1, the event counting itself whatever its delay, a
\* null delay included.
C19_CountAtLeastOne ==
    FeaturesRolled =>
        \A col \in GroupCols : \A p \in Timed : \A w \in Windows :
            RolledOf(col).out[p][w].count >= 1

\* ------------------------------------------- null timestamp in the windows
Untimed == {p \in 1..Len(df) : df[p].ts = NaT}
NullAgg == [mean |-> NaNFrac, median |-> NaNFrac, std |-> NaNFrac, count |-> NaN]
\* the input without its events that have no timestamp, and the label the
\* timed event p carries in it
TimedLabels == SelectSeq(RowIdx(df), LAMBDA q : df[q].ts # NaT)
TimedOnly == [k \in 1..Len(TimedLabels) |-> df[TimedLabels[k]]]
TimedLabel(p) == CHOOSE k \in 1..Len(TimedLabels) : TimedLabels[k] = p
ValueOnTimedOnly(col, p, w) ==
    rolling_group_features(TimedOnly, SortValues(TimedOnly, quick_rev),
                           TRUE, col, quick_rev).out[TimedLabel(p)][w]
ExcludedFromWindows ==
    \A col \in GroupCols : \A p \in Timed : \A w \in Windows :
        RolledOf(col).out[p][w] = ValueOnTimedOnly(col, p, w)

\* C20: an event with a null timestamp gets a null value in every windowed
\* field, mean, median, std and count, for every window, and its delay is
\* in no other event's window.
C20_NullTimestampAllNull ==
    (pc = "rolled" /\ ~route_rolled.empty) =>
        /\ \A col \in GroupCols : \A p \in Untimed : \A w \in Windows :
               RolledOf(col).out[p][w] = NullAgg
        /\ ExcludedFromWindows

\* C20 (amended): an event with a null timestamp gets a null mean, median
\* and std and the count 0 for every window, and the windowed values of
\* the other events are those of the input without it.
C20_NullTimestampExcluded ==
    (pc = "rolled" /\ ~route_rolled.empty) =>
        /\ \A col \in GroupCols : \A p \in Untimed : \A w \in Windows :
               /\ RolledOf(col).out[p][w].mean = NaNFrac
               /\ RolledOf(col).out[p][w].median = NaNFrac
               /\ RolledOf(col).out[p][w].std = NaNFrac
               /\ RolledOf(col).out[p][w].count = 0
        /\ ExcludedFromWindows
\* an event without a timestamp but with a delay, in the route of a timed
\* event that has a delay and a count of 1
C20_Witness ==
    /\ pc = "rolled" /\ ~route_rolled.empty
    /\ \E p \in Untimed : \E q \in Timed :
        /\ df[p].route_id = df[q].route_id
        /\ df[p].delay # NaN /\ df[q].delay # NaN /\ df[p].delay # df[q].delay
        /\ route_rolled.out[q]["30D"].count = 1
        /\ route_rolled.out[p]["30D"].count = 0

\* ------------------------------------------------- single-point std claims
\* the event p is the only timed event of its group
AloneInGroup(col, p) == \A q \in Timed : SameGroup(col, p, q) => q = p

C22_SingleEventGroupStdZero ==
    FeaturesWritten =>
        \A q \in 1..Len(features) :
            (Cardinality(RouteRows(features[q].route_id)) = 1 /\ features[q].delay # NaN)
                => features[q].route_id_std = Frac(0, 1)

\* ------------------------------------------------------ windowed std claim
\* the delay values in the window rolling() forms for the timed event p
WindowValues(col, p, w) ==
    LET gdf == Gdf(df, GroupIdxs(df, sorted_idx, col, df[p][col]), quick_rev)
        j == CHOOSE k \in 1..Len(gdf) : gdf[k] = p
    IN  DelayVals(df, WindowRows(df, gdf, j, w))
\* the population variance: squared deviations divided by n
PopulationVar(v) == Frac(VarNum(v), Len(v) * Len(v))

\* C23: for every window that holds two or more delay values the windowed
\* std is the population standard deviation (divided by n), not the sample
\* standard deviation (divided by n - 1).
C23_PopulationStd ==
    (pc = "rolled" /\ ~route_rolled.empty) =>
        \A col \in GroupCols : \A p \in Timed : \A w \in Windows :
            Len(WindowValues(col, p, w)) >= 2
                => RolledOf(col).out[p][w].std = PopulationVar(WindowValues(col, p, w))

\* ----------------------------------------------------- fold report claims
CommonFields == {"fold", "n_train", "n_test", "if_top_fraction"}
IfLabelFields == {"if_precision", "if_recall", "if_f1", "if_auc"}
ZLabelFields == {"z_precision", "z_recall", "z_f1"}
DescriptiveFields == {"if_anomalies", "if_score_mean", "if_score_std", "z_anomalies"}
HasLabel == label_col # "none"
StatisticalScorerRan == "dispatch_delay_minutes" \in numeric_cols

\* C24: a fold report holds the label-based metrics (precision, recall, F1
\* of each scorer, AUC of the isolation scorer) exactly when the dataset
\* has a label column and the descriptive fields exactly when it has none,
\* never fields of both kinds, and always fold, n_train, n_test and the
\* contamination.
C24_ReportKinds ==
    \A k \in 1..Len(report) :
        /\ CommonFields \subseteq DOMAIN report[k]
        /\ HasLabel <=> (IfLabelFields \cup ZLabelFields) \subseteq DOMAIN report[k]
        /\ ~HasLabel <=> {"if_anomalies", "if_score_mean", "if_score_std"} \subseteq DOMAIN report[k]
        /\ HasLabel => DescriptiveFields \cap DOMAIN report[k] = {}
        /\ ~HasLabel => (IfLabelFields \cup ZLabelFields) \cap DOMAIN report[k] = {}

\* C24 (amended): as C24, the statistical scorer's precision, recall and
\* F1 being present only when there is a label column and
\* dispatch_delay_minutes is a numeric column.
C24_ReportKindsByScorer ==
    \A k \in 1..Len(report) :
        /\ CommonFields \subseteq DOMAIN report[k]
        /\ HasLabel <=> IfLabelFields \subseteq DOMAIN report[k]
        /\ (HasLabel /\ StatisticalScorerRan) <=> ZLabelFields \subseteq DOMAIN report[k]
        /\ ~(HasLabel /\ StatisticalScorerRan) => ZLabelFields \cap DOMAIN report[k] = {}
        /\ ~HasLabel <=> {"if_anomalies", "if_score_mean", "if_score_std"} \subseteq DOMAIN report[k]
        /\ HasLabel => DescriptiveFields \cap DOMAIN report[k] = {}
        /\ ~HasLabel => IfLabelFields \cap DOMAIN report[k] = {}
\* a report of a labelled dataset with both scorers' metrics and an AUC
C24_Witness ==
    /\ HasLabel /\ Len(report) >= 1
    /\ ZLabelFields \subseteq DOMAIN report[1]
    /\ report[1].if_auc # None
    /\ report[1].z_recall = Frac(1, 1)

\* ------------------------------------------------ separation of the paths
FlaggedFields == {"written", "rows", "if_score", "delay_zscore", "z_anomaly"}

\* C25: the evaluation path and the full-dataset path are kept apart: the
\* report is written, from the fold reports alone, before anything of the
\* full-dataset path happens and is not touched afterwards; the flagged
\* table is written after it and holds full-dataset scores and flags only.
C25_StepsApart ==
    [][/\ rep_file' # rep_file =>
            /\ ~flagged_file.written /\ ~flagged_file'.written
            /\ rep_file' = [written |-> TRUE, folds |-> report, n_folds |-> Len(report)]
       /\ flagged_file' # flagged_file =>
            /\ rep_file.written /\ rep_file' = rep_file /\ report' = report
            /\ DOMAIN flagged_file' \subseteq FlaggedFields
            /\ StatisticalScorerRan /\ numeric_cols # {} =>
                /\ flagged_file'.z_anomaly = AnomaliesZ(df, RowIdx(df), RowIdx(df))
                /\ flagged_file'.delay_zscore = ZScores(df, RowIdx(df), RowIdx(df))]_vars
\* both artifacts written, the last fold having flagged a row that the
\* full-dataset z-score does not flag
C25_Witness ==
    /\ pc = "done" /\ rep_file.written /\ flagged_file.written
    /\ StatisticalScorerRan /\ Len(report) >= 1
    /\ anomalies_z # {} /\ flagged_file.z_anomaly = {}

\* ------------------------------------------------------ frame of the input
\* C26: time_splits, rolling_group_features, add_route_zscore and
\* run_baselines leave the dataset passed to them as it was: no step
\* removes, reorders or changes a row or adds a column to it; derived
\* fields are in the returned and written tables only.
C26_InputUntouched == [][df' = df]_vars
\* a finished run whose splitter sorted rows that were not in order
C26_Witness ==
    /\ pc = "done" /\ hasTime /\ flagged_file.written
    /\ Len(folds) >= 1 /\ sorted_idx # RowIdx(df)

\* ------------------------------------------------------ fold chain claim
\* C27: in either mode the train set of each emitted fold after the first
\* is the disjoint union of the previous fold's train and test sets; train
\* and test of a fold share no event, the test sets are pairwise disjoint,
\* and in the report n_train of a fold is n_train + n_test of the one
\* before.
C27_FoldChain ==
    /\ \A k \in 1..Len(folds) :
        /\ Range(folds[k].train) \cap Range(folds[k].test) = {}
        /\ \A l \in 1..Len(folds) :
               k # l => Range(folds[k].test) \cap Range(folds[l].test) = {}
    /\ \A k \in 1..(Len(folds) - 1) :
        /\ Range(folds[k + 1].train) = Range(folds[k].train) \cup Range(folds[k].test)
        /\ Len(folds[k + 1].train) = Len(folds[k].train) + Len(folds[k].test)
    /\ \A k \in 1..(Len(report) - 1) :
        report[k + 1].n_train = report[k].n_train + report[k].n_test
\* two reported folds in date-segmented mode, the first test set of two rows
C27_Witness ==
    /\ hasTime /\ Len(folds) = 2 /\ Len(report) = 2
    /\ Len(folds[1].test) = 2
    /\ report[2].n_train = 3

\* ----------------------------------------------------- label leakage claim
\* C28: the label column is no part of the feature matrix of the isolation
\* scorer: the feature row of every event, in the folds and over the full
\* dataset, is the same on a dataset that differs in label values only,
\* for a boolean and for a 0/1 integer label column alike.
C28_LabelNotAFeature ==
    (HasLabel /\ Len(report) >= 1) =>
        /\ "anomaly" \notin numeric_cols
        /\ \A p \in 1..Len(df) : \A y \in {0, 1} :
               XRow([df EXCEPT ![p].anomaly = y], numeric_cols, p)
                   = XRow(df, numeric_cols, p)

\* ------------------------------------------------- shared timestamp claim
\* two timed events of one group with the same timestamp
SharedTimestamp(col) ==
    \E p \in Timed : \E q \in Timed :
        p # q /\ SameGroup(col, p, q) /\ df[p].ts = df[q].ts

C30_NullTimestampInNoFold ==
    hasTime =>
        \A k \in 1..Len(folds) :
            \A p \in Range(folds[k].train) \cup Range(folds[k].test) : df[p].ts # NaT

====
